---- MODULE Spec2Model ----
(***************************************************************************)
(* Model of advanced_alchemy/exceptions.py: the dialect pattern tables,    *)
(* AdvancedAlchemyError.__init__, _get_error_message and the context       *)
(* manager wrap_sqlalchemy_exception.                                      *)
(*                                                                         *)
(* Text is modelled as a sequence of lexemes (a word, or one punctuation   *)
(* or whitespace character).  A compiled pattern is a sequence of items    *)
(* (a set of lexemes with a quantifier, or a word-boundary assertion) and  *)
(* is run as a position-set automaton, so that matching is computed and    *)
(* not assumed.                                                            *)
(***************************************************************************)
EXTENDS Integers, Sequences, FiniteSets, TLC

(***************************************************************************)
(* Lexemes                                                                 *)
(***************************************************************************)
SP == " "
NL == "\n"
DQ == "\""
SQ == "'"
BQ == "BACKTICK"                 \* the backquote character
BSL == "\\"

Punct == {SP, NL, DQ, SQ, BQ, BSL, "(", ")", "=", ":", ".", ",", "-"}

Words ==
  {"duplicate", "key", "Key", "KEY", "already", "exists", "value", "violates",
   "unique", "constraint", "DETAIL", "column", "columns", "is", "are", "not",
   "UNIQUE", "failed", "PRIMARY", "must", "be", "1062", "Duplicate", "entry",
   "for", "on", "table", "foreign", "FOREIGN", "present", "in", "still",
   "referenced", "from", "Cannot", "add", "delete", "or", "update", "a",
   "child", "parent", "row", "fails", "CONSTRAINT", "REFERENCES", "new",
   "relation", "check", "insert", "x"}

Tok == Words \cup Punct

\* str.lower() of a lexeme, as applied by the (?i) flag
Lower(t) ==
  CASE t \in {"Key", "KEY"} -> "key"
    [] t = "FOREIGN" -> "foreign"
    [] t = "UNIQUE" -> "unique"
    [] t = "CONSTRAINT" -> "constraint"
    [] t = "PRIMARY" -> "primary"
    [] t = "REFERENCES" -> "references"
    [] t = "DETAIL" -> "detail"
    [] t = "Duplicate" -> "duplicate"
    [] t = "Cannot" -> "cannot"
    [] OTHER -> t

(***************************************************************************)
(* Pattern items                                                           *)
(***************************************************************************)
Dot == Tok \ {NL}                 \* "." without DOTALL
WS == {SP, NL}                    \* "\s"
Not(t) == Tok \ {t}               \* "[^t]"

One(A) == <<[q |-> "1", set |-> A]>>
Star(A) == <<[q |-> "*", set |-> A]>>
Plus(A) == <<[q |-> "+", set |-> A]>>
WordB == <<[q |-> "b", set |-> {}]>>   \* "\b"

RECURSIVE Lit(_)
\* a literal run of lexemes
Lit(ts) == IF ts = <<>> THEN <<>> ELSE One({Head(ts)}) \o Lit(Tail(ts))

RECURSIVE Phrase(_)
\* words separated by one literal space each
Phrase(ws) ==
  IF Len(ws) <= 1 THEN Lit(ws) ELSE Lit(<<Head(ws), SP>>) \o Phrase(Tail(ws))

RECURSIVE SepWords(_)
\* words separated by "\s+"
SepWords(ws) ==
  IF Len(ws) <= 1 THEN Lit(ws) ELSE Lit(<<Head(ws)>>) \o Plus(WS) \o SepWords(Tail(ws))

(***************************************************************************)
(* Matching                                                                *)
(***************************************************************************)
TokIn(t, A, ci) == IF ci THEN Lower(t) \in {Lower(a) : a \in A} ELSE t \in A

IsWordAt(s, i) == i >= 1 /\ i <= Len(s) /\ s[i] \in Words

StepOne(it, S, s, ci) ==
  {i + 1 : i \in {j \in S : j <= Len(s) /\ TokIn(s[j], it.set, ci)}}

\* the end of the run of lexemes of it.set that starts at position i
RunEnd(it, s, ci, i) ==
  CHOOSE j \in i..(Len(s) + 1) :
    /\ j = Len(s) + 1 \/ ~TokIn(s[j], it.set, ci)
    /\ \A m \in i..(j - 1) : TokIn(s[m], it.set, ci)

\* positions reachable from S by consuming zero or more lexemes of it.set
\* (a position whose predecessor is in S and consumes is covered by its run)
Closure(it, S, s, ci) ==
  LET starts == {i \in S : ~(i > 1 /\ (i - 1) \in S /\ TokIn(s[i - 1], it.set, ci))}
  IN  UNION {i..RunEnd(it, s, ci, i) : i \in starts}

StepItem(it, S, s, ci) ==
  CASE it.q = "1" -> StepOne(it, S, s, ci)
    [] it.q = "*" -> Closure(it, S, s, ci)
    [] it.q = "+" -> Closure(it, StepOne(it, S, s, ci), s, ci)
    [] it.q = "b" -> {i \in S : IsWordAt(s, i - 1) # IsWordAt(s, i)}

RECURSIVE RunItems(_, _, _, _, _)
RunItems(items, k, S, s, ci) ==
  IF k > Len(items) \/ S = {} THEN S
  ELSE RunItems(items, k + 1, StepItem(items[k], S, s, ci), s, ci)

\* "$" matches at the end and just before a final newline
EndPositions(p, s) ==
  IF p.anchE
  THEN {Len(s) + 1} \cup (IF Len(s) >= 1 /\ s[Len(s)] = NL THEN {Len(s)} ELSE {})
  ELSE 1..(Len(s) + 1)

\* one alternative of a pattern found somewhere in s (re search semantics)
LinearSearch(p, s, ci) ==
  LET S0 == IF p.anchS THEN {1} ELSE 1..(Len(s) + 1)
  IN  RunItems(p.items, 1, S0, s, ci) \cap EndPositions(p, s) # {}

RECURSIVE MinLen(_)
MinLen(items) ==
  IF items = <<>> THEN 0
  ELSE (IF Head(items).q \in {"1", "+"} THEN 1 ELSE 0) + MinLen(Tail(items))

Search(rx, s) == \E a \in 1..Len(rx.alts) : LinearSearch(rx.alts[a], s, rx.ci)

\* (match := regex.findall(detail)) and match[0]: with two or more groups
\* match[0] is a non-empty tuple; with one group it is the text of the group and
\* with none the whole match, each non-empty when it must consume a lexeme.
FindallFirstTruthy(rx, s) ==
  /\ Search(rx, s)
  /\ \/ rx.groups >= 2
     \/ MinLen(rx.probe) > 0

Alt(anchS, items, anchE) == [anchS |-> anchS, items |-> items, anchE |-> anchE]

\* a compiled pattern: its alternatives, its number of groups, the items
\* whose text is match[0] when there are fewer than two groups, and (?i)
Rx(alts, groups, probe, ci) ==
  [alts |-> alts, groups |-> groups, probe |-> probe, ci |-> ci]

(***************************************************************************)
(* The pattern tables                                                      *)
(***************************************************************************)
QuotedName == Lit(<<DQ>>) \o Plus(Not(DQ)) \o Lit(<<DQ>>)    \* "\"(?P<n>[^\"]+)\""
AnyQuote == One({BQ, DQ})                                   \* [`"]
Quoted == AnyQuote \o Plus(Dot) \o AnyQuote                  \* [`"](?P<n>.+)[`"]

PgDuplicateHead ==
  Star(Dot) \o SepWords(<<"duplicate", "key">>) \o Star(Dot) \o QuotedName
    \o Star(WS) \o Lit(<<NL>>)

PG_DUPLICATE_1 ==
  Rx(<<Alt(TRUE,
           PgDuplicateHead \o Star(Dot) \o Lit(<<"Key">>) \o Plus(WS)
             \o Lit(<<"(">>) \o Star(Dot) \o Lit(<<")", "=", "(">>) \o Star(Dot)
             \o Lit(<<")">>) \o Plus(WS) \o SepWords(<<"already", "exists">>)
             \o Star(Dot),
           TRUE)>>, 3, <<>>, FALSE)

PG_DUPLICATE_2 ==
  Rx(<<Alt(TRUE, PgDuplicateHead \o Star(Dot), TRUE)>>, 1, Plus(Not(DQ)), FALSE)

SQLITE_DUPLICATE_1 ==
  Rx(<<Alt(TRUE,
           Star(Dot) \o One({"column", "columns"}) \o Plus(Not(")"))
             \o One({"is", "are"}) \o Plus(WS) \o SepWords(<<"not", "unique">>),
           TRUE)>>, 2, <<>>, FALSE)

SQLITE_DUPLICATE_2 ==
  Rx(<<Alt(TRUE,
           Star(Dot) \o SepWords(<<"UNIQUE", "constraint", "failed">>)
             \o Lit(<<":">>) \o Plus(WS) \o Plus(Dot),
           TRUE)>>, 1, Plus(Dot), FALSE)

SqlitePrimaryKeyItems ==
  Star(Dot) \o SepWords(<<"PRIMARY", "KEY", "must", "be", "unique">>) \o Star(Dot)

SQLITE_DUPLICATE_3 ==
  Rx(<<Alt(TRUE, SqlitePrimaryKeyItems, TRUE)>>, 0, SqlitePrimaryKeyItems, FALSE)

MysqlDuplicateHead ==
  Star(Dot) \o WordB \o Lit(<<"1062">>) \o WordB \o Star(Dot)
    \o Phrase(<<"Duplicate", "entry">>) \o Lit(<<SP>>)

MYSQL_DUPLICATE_1 ==
  Rx(<<Alt(TRUE,
           MysqlDuplicateHead \o Lit(<<SQ>>) \o Star(Dot) \o Lit(<<SQ, SP>>)
             \o Phrase(<<"for", "key">>) \o Lit(<<SP, SQ>>) \o Plus(Not(SQ))
             \o Lit(<<SQ>>) \o Star(Dot),
           TRUE)>>, 2, <<>>, FALSE)

MYSQL_DUPLICATE_2 ==
  Rx(<<Alt(TRUE,
           MysqlDuplicateHead \o Lit(<<BSL, SQ>>) \o Star(Dot)
             \o Lit(<<BSL, SQ, SP>>) \o Phrase(<<"for", "key">>)
             \o Lit(<<SP, BSL, SQ>>) \o Plus(Dot) \o Lit(<<BSL, SQ>>) \o Star(Dot),
           TRUE)>>, 2, <<>>, FALSE)

PgForeignKeyItems(relation) ==
  Star(Dot) \o Phrase(<<"on", "table">>) \o Lit(<<SP>>) \o QuotedName \o Lit(<<SP>>)
    \o Phrase(<<"violates", "foreign", "key", "constraint">>) \o Lit(<<SP>>)
    \o QuotedName \o Star(Dot) \o Lit(<<NL, "DETAIL", ":", SP, SP, "Key", SP, "(">>)
    \o Plus(Dot) \o Lit(<<")", "=", "(">>) \o Plus(Dot) \o Lit(<<")", SP, "is", SP>>)
    \o Phrase(relation) \o Lit(<<SP, "table", SP>>) \o QuotedName \o One(Dot)

PG_FOREIGN_KEY_1 ==
  Rx(<<Alt(FALSE, PgForeignKeyItems(<<"not", "present", "in">>), FALSE),
       Alt(FALSE, PgForeignKeyItems(<<"still", "referenced", "from">>), FALSE)>>,
     5, <<>>, FALSE)

SqliteForeignKeyItems ==
  Star(Dot) \o Phrase(<<"foreign", "key", "constraint", "failed">>)

SQLITE_FOREIGN_KEY_1 ==
  Rx(<<Alt(FALSE, SqliteForeignKeyItems, FALSE)>>, 0, SqliteForeignKeyItems, TRUE)

MYSQL_FOREIGN_KEY_1 ==
  Rx(<<Alt(FALSE,
           Star(Dot) \o Lit(<<"Cannot", SP>>) \o One({"add", "delete"}) \o Lit(<<SP>>)
             \o Phrase(<<"or", "update", "a">>) \o Lit(<<SP>>)
             \o One({"child", "parent"}) \o Lit(<<SP, "row", ":", SP>>)
             \o Phrase(<<"a", "foreign", "key", "constraint", "fails">>)
             \o Lit(<<SP, "(">>) \o Quoted \o Lit(<<".">>) \o Quoted
             \o Lit(<<",", SP, "CONSTRAINT", SP>>) \o Quoted
             \o Lit(<<SP, "FOREIGN", SP, "KEY", SP, "(">>) \o Quoted
             \o Lit(<<")", SP, "REFERENCES", SP>>) \o Quoted \o Lit(<<SP>>),
           FALSE)>>, 6, <<>>, FALSE)

PG_CHECK_CONSTRAINT_1 ==
  Rx(<<Alt(FALSE,
           Star(Dot) \o Phrase(<<"new", "row", "for", "relation">>)
             \o Lit(<<SP, DQ>>) \o Plus(Dot) \o Lit(<<DQ, SP>>)
             \o Phrase(<<"violates", "check", "constraint">>) \o Lit(<<SP>>)
             \o Plus(Dot),
           FALSE)>>, 2, <<>>, FALSE)

Dialects ==
  {"postgresql", "sqlite", "mysql", "oracle", "spanner+spanner", "duckdb",
   "mssql", "bigquery", "cockroach"}

\* variant: the postgresql patterns also entered under "oracle"
DUPLICATE_KEY_REGEXES_OracleFilled ==
  [d \in Dialects |->
     CASE d \in {"postgresql", "oracle"} -> <<PG_DUPLICATE_1, PG_DUPLICATE_2>>
       [] d = "sqlite" -> <<SQLITE_DUPLICATE_1, SQLITE_DUPLICATE_2, SQLITE_DUPLICATE_3>>
       [] d = "mysql" -> <<MYSQL_DUPLICATE_1, MYSQL_DUPLICATE_2>>
       [] OTHER -> <<>>]

DUPLICATE_KEY_REGEXES ==
  [d \in Dialects |->
     CASE d = "postgresql" -> <<PG_DUPLICATE_1, PG_DUPLICATE_2>>
       [] d = "sqlite" -> <<SQLITE_DUPLICATE_1, SQLITE_DUPLICATE_2, SQLITE_DUPLICATE_3>>
       [] d = "mysql" -> <<MYSQL_DUPLICATE_1, MYSQL_DUPLICATE_2>>
       [] OTHER -> <<>>]

FOREIGN_KEY_REGEXES ==
  [d \in Dialects |->
     CASE d = "postgresql" -> <<PG_FOREIGN_KEY_1>>
       [] d = "sqlite" -> <<SQLITE_FOREIGN_KEY_1>>
       [] d = "mysql" -> <<MYSQL_FOREIGN_KEY_1>>
       [] OTHER -> <<>>]

CHECK_CONSTRAINT_REGEXES ==
  [d \in Dialects |->
     CASE d = "postgresql" -> <<PG_CHECK_CONSTRAINT_1>>
       [] OTHER -> <<>>]

\* TABLE.get(dialect_name, [])
RegexesFor(table, dialect) ==
  IF dialect \in DOMAIN table THEN table[dialect] ELSE <<>>

(***************************************************************************)
(* Driver messages: the positional arguments of the DBAPI error (exc.orig) *)
(***************************************************************************)
RECURSIVE Spaced(_)
\* lexemes of words written with single spaces between them
Spaced(ws) == IF Len(ws) <= 1 THEN ws ELSE <<Head(ws), SP>> \o Spaced(Tail(ws))

KeyDetail(tail) ==
  <<NL, "DETAIL", ":", SP, SP, "Key", SP, "(", "x", ")", "=", "(", "x", ")", SP>>
    \o tail \o <<".">>

PgDuplicateMsg ==
  Spaced(<<"duplicate", "key", "value", "violates", "unique", "constraint">>)
    \o <<SP, DQ, "x", DQ>> \o KeyDetail(Spaced(<<"already", "exists">>))

PgForeignKeyOn(tableName) ==
  Spaced(<<"insert", "or", "update", "on", "table">>) \o <<SP, DQ>> \o tableName
    \o <<DQ, SP>> \o Spaced(<<"violates", "foreign", "key", "constraint">>)
    \o <<SP, DQ, "x", DQ>>
    \o KeyDetail(Spaced(<<"is", "not", "present", "in", "table">>) \o <<SP, DQ, "x", DQ>>)

PgForeignKeyMsg == PgForeignKeyOn(<<"x">>)

\* the same violation on a table whose quoted name is "duplicate key"
PgForeignKeyDupTableMsg == PgForeignKeyOn(<<"duplicate", SP, "key">>)

PgCheckMsg ==
  Spaced(<<"new", "row", "for", "relation">>) \o <<SP, DQ, "x", DQ, SP>>
    \o Spaced(<<"violates", "check", "constraint">>) \o <<SP, DQ, "x", DQ>>

SqliteNotUniqueMsg == Spaced(<<"column", "x", "is", "not", "unique">>)

SqliteUniqueMsg ==
  Spaced(<<"UNIQUE", "constraint", "failed">>) \o <<":", SP, "x", ".", "x">>

SqliteForeignKeyMsg == Spaced(<<"FOREIGN", "KEY", "constraint", "failed">>)

MysqlCode == <<"1062">>

MysqlDuplicateMsg ==
  Spaced(<<"Duplicate", "entry">>) \o <<SP, SQ, "x", SQ, SP>>
    \o Spaced(<<"for", "key">>) \o <<SP, SQ, "x", SQ>>

MysqlForeignKeyMsg ==
  Spaced(<<"Cannot", "add", "or", "update", "a", "child", "row">>) \o <<":", SP>>
    \o Spaced(<<"a", "foreign", "key", "constraint", "fails">>)
    \o <<SP, "(", BQ, "x", BQ, ".", BQ, "x", BQ, ",", SP, "CONSTRAINT", SP,
         BQ, "x", BQ, SP, "FOREIGN", SP, "KEY", SP, "(", BQ, "x", BQ, ")", SP,
         "REFERENCES", SP, BQ, "x", BQ, SP, "(", BQ, "x", BQ, ")", ")">>

\* the messages tried as positional arguments, by name
Fragments ==
  {"PgDuplicateMsg", "PgForeignKeyMsg", "PgForeignKeyDupTableMsg", "PgCheckMsg",
   "SqliteNotUniqueMsg", "SqliteUniqueMsg", "SqliteForeignKeyMsg",
   "MysqlCode", "MysqlDuplicateMsg", "MysqlForeignKeyMsg"}

\* str(exc_arg): the lexemes of a positional argument
ArgText ==
  [f \in Fragments |->
     CASE f = "PgDuplicateMsg" -> PgDuplicateMsg
       [] f = "PgForeignKeyMsg" -> PgForeignKeyMsg
       [] f = "PgForeignKeyDupTableMsg" -> PgForeignKeyDupTableMsg
       [] f = "PgCheckMsg" -> PgCheckMsg
       [] f = "SqliteNotUniqueMsg" -> SqliteNotUniqueMsg
       [] f = "SqliteUniqueMsg" -> SqliteUniqueMsg
       [] f = "SqliteForeignKeyMsg" -> SqliteForeignKeyMsg
       [] f = "MysqlCode" -> MysqlCode
       [] f = "MysqlDuplicateMsg" -> MysqlDuplicateMsg
       [] f = "MysqlForeignKeyMsg" -> MysqlForeignKeyMsg]

MaxArgs == 2

RECURSIVE SeqsUpTo(_, _)
SeqsUpTo(S, n) ==
  IF n = 0 THEN {<<>>}
  ELSE LET shorter == SeqsUpTo(S, n - 1)
       IN  shorter \cup {Append(t, x) : t \in {u \in shorter : Len(u) = n - 1}, x \in S}

OrigArgs == SeqsUpTo(Fragments, MaxArgs)

RECURSIVE JoinArgs(_)
\* " - ".join(str(exc_arg) for exc_arg in exc.orig.args)
JoinArgs(args) ==
  IF Len(args) = 0 THEN <<>>
  ELSE IF Len(args) = 1 THEN ArgText[args[1]]
  ELSE ArgText[args[1]] \o <<SP, "-", SP>> \o JoinArgs(Tail(args))

(***************************************************************************)
(* Exceptions                                                              *)
(***************************************************************************)
NoRef == 0          \* None as __cause__ / __context__ / embedded argument
BodyId == 1         \* identity of the exception raised inside the scope
NewId == 2          \* identity of an exception created while handling it

\* a text: a format and the exception whose str() it embeds (NoRef: none)
Text(fmt, arg) == [fmt |-> fmt, arg |-> arg]
NoText == Text("", NoRef)

NoOrig == [present |-> FALSE, args |-> <<>>, hasDetail |-> FALSE]
Orig(args, hasDetail) == [present |-> TRUE, args |-> args, hasDetail |-> hasDetail]

Exc(id, cls, orig, args, detail, cause, context) ==
  [id |-> id, cls |-> cls, orig |-> orig, args |-> args, detail |-> detail,
   cause |-> cause, context |-> context]

NoExc == Exc(NoRef, "None", NoOrig, <<>>, NoText, NoRef, NoRef)

\* the classes named by the except clauses, with their base classes
Bases(cls) ==
  CASE cls = "NotFoundError" ->
         {"NotFoundError", "RepositoryError", "AdvancedAlchemyError", "Exception"}
    [] cls = "MultipleResultsFound" ->
         {"MultipleResultsFound", "SQLAlchemyInvalidRequestError", "SQLAlchemyError",
          "Exception"}
    [] cls = "SQLAlchemyIntegrityError" ->
         {"SQLAlchemyIntegrityError", "StatementError", "SQLAlchemyError", "Exception"}
    [] cls = "SQLAlchemyInvalidRequestError" ->
         {"SQLAlchemyInvalidRequestError", "SQLAlchemyError", "Exception"}
    [] cls = "StatementError" -> {"StatementError", "SQLAlchemyError", "Exception"}
    [] cls = "SQLAlchemyError" -> {"SQLAlchemyError", "Exception"}
    [] cls = "AttributeError" -> {"AttributeError", "Exception"}
    [] cls = "ImproperConfigurationError" ->
         {"ImproperConfigurationError", "AdvancedAlchemyError", "Exception"}
    [] OTHER -> {cls, "Exception"}

IsInstance(e, cls) == cls \in Bases(e.cls)

\* the normalized taxonomy: RepositoryError and its subclasses
RepositoryFamily ==
  {"RepositoryError", "IntegrityError", "DuplicateKeyError", "ForeignKeyError",
   "NotFoundError", "MultipleResultsFoundError", "InvalidRequestError"}

Truthy(t) == t.fmt # ""

\* AdvancedAlchemyError.__init__(*args, detail): the args and detail it keeps
AdvancedAlchemyErrorInit(args, detail) ==
  LET str_args == SelectSeq(args, Truthy)
  IN  IF ~Truthy(detail) /\ str_args # <<>>
      THEN [args |-> Tail(str_args), detail |-> Head(str_args)]
      ELSE [args |-> str_args, detail |-> detail]   \* no class attribute "detail"

\* variant: the new error raised without "from exc"
RaiseFrom_NoCause(cls, detail, exc) ==
  LET init == AdvancedAlchemyErrorInit(<<>>, detail)
  IN  Exc(NewId, cls, NoOrig, init.args, init.detail, NoRef, exc.id)

\* raise cls(detail=detail) from exc
RaiseFrom(cls, detail, exc) ==
  LET init == AdvancedAlchemyErrorInit(<<>>, detail)
  IN  Exc(NewId, cls, NoOrig, init.args, init.detail, exc.id, exc.id)

\* an exception raised while exc is being handled, without "from"
RaiseDuring(cls, exc) == Exc(NewId, cls, NoOrig, <<>>, NoText, NoRef, exc.id)

(***************************************************************************)
(* ErrorMessages and _get_error_message                                    *)
(***************************************************************************)
Keys ==
  {"duplicate_key", "integrity", "foreign_key", "multiple_rows", "check_constraint",
   "other", "not_found"}

Absent == [kind |-> "absent", text |-> "", ret |-> ""]
Str(text) == [kind |-> "str", text |-> text, ret |-> ""]
\* a callable entry: it returns a text made from its argument, returns the
\* empty string, or raises
Fn(ret) == [kind |-> "fn", text |-> "", ret |-> ret]

CustomText(key) ==
  CASE key = "duplicate_key" -> "custom duplicate_key"
    [] key = "integrity" -> "custom integrity"
    [] key = "foreign_key" -> "custom foreign_key"
    [] key = "multiple_rows" -> "custom multiple_rows"
    [] key = "check_constraint" -> "custom check_constraint"
    [] key = "other" -> "custom other"
    [] key = "not_found" -> "custom not_found"

FnText(key) ==
  CASE key = "duplicate_key" -> "duplicate_key callable({exc})"
    [] key = "integrity" -> "integrity callable({exc})"
    [] key = "foreign_key" -> "foreign_key callable({exc})"
    [] key = "multiple_rows" -> "multiple_rows callable({exc})"
    [] key = "check_constraint" -> "check_constraint callable({exc})"
    [] key = "other" -> "other callable({exc})"
    [] key = "not_found" -> "not_found callable({exc})"

\* f"{key} error: {exc}"
DefaultText(key) ==
  CASE key = "duplicate_key" -> "duplicate_key error: {exc}"
    [] key = "integrity" -> "integrity error: {exc}"
    [] key = "foreign_key" -> "foreign_key error: {exc}"
    [] key = "multiple_rows" -> "multiple_rows error: {exc}"
    [] key = "check_constraint" -> "check_constraint error: {exc}"
    [] key = "other" -> "other error: {exc}"
    [] key = "not_found" -> "not_found error: {exc}"

NoMessages == [given |-> FALSE, table |-> [k \in Keys |-> Absent]]
Table(t) == [given |-> TRUE, table |-> t]

\* the override tables tried: none, the empty one, one entry, every entry
ErrorMessagesInputs ==
  {NoMessages, Table([k \in Keys |-> Absent])}
    \cup {Table([k \in Keys |-> IF k = only THEN Str(CustomText(k)) ELSE Absent]) :
            only \in Keys}
    \cup {Table([k \in Keys |-> Str(CustomText(k))])}
    \cup {Table([k \in Keys |-> Fn(r)]) : r \in {"text", "empty", "raise"}}

\* what template(exc) does for a callable entry called with the exception arg
CallOverride(key, entry, arg) ==
  [raised |-> entry.ret = "raise",
   value |-> IF entry.ret = "text" THEN Text(FnText(key), arg.id) ELSE NoText]

\* _get_error_message(error_messages, key, exc): the text returned (or that
\* the callable raised), and the callable invocations made
GetErrorMessage(messages, key, e) ==
  LET entry == messages.table[key]
  IN  IF entry.kind = "absent"
      THEN [raised |-> FALSE, value |-> Text(DefaultText(key), e.id), calls |-> <<>>]
      ELSE IF entry.kind = "fn"
      THEN LET r == CallOverride(key, entry, e)
           IN  [raised |-> r.raised, value |-> r.value,
                calls |-> <<[key |-> key, arg |-> e.id]>>]
      ELSE [raised |-> FALSE, value |-> Text(entry.text, NoRef), calls |-> <<>>]

(***************************************************************************)
(* wrap_sqlalchemy_exception                                               *)
(***************************************************************************)
NoDialect == "None"                      \* dialect_name=None
DialectInputs == Dialects \cup {"firebird", NoDialect}

\* variant: the error types of duplicate_key and foreign_key exchanged
keys_to_regex_SwappedErrors(dialect) ==
  <<[key |-> "duplicate_key", regexes |-> RegexesFor(DUPLICATE_KEY_REGEXES, dialect),
     exception |-> "ForeignKeyError"],
    [key |-> "check_constraint", regexes |-> RegexesFor(CHECK_CONSTRAINT_REGEXES, dialect),
     exception |-> "IntegrityError"],
    [key |-> "foreign_key", regexes |-> RegexesFor(FOREIGN_KEY_REGEXES, dialect),
     exception |-> "DuplicateKeyError"]>>

\* the dict built in the integrity handler, in insertion order
keys_to_regex(dialect) ==
  <<[key |-> "duplicate_key", regexes |-> RegexesFor(DUPLICATE_KEY_REGEXES, dialect),
     exception |-> "DuplicateKeyError"],
    [key |-> "check_constraint", regexes |-> RegexesFor(CHECK_CONSTRAINT_REGEXES, dialect),
     exception |-> "IntegrityError"],
    [key |-> "foreign_key", regexes |-> RegexesFor(FOREIGN_KEY_REGEXES, dialect),
     exception |-> "ForeignKeyError"]>>

\* " - ".join(...) if exc.orig.args else ""
DriverDetail(args) == IF Len(args) > 0 THEN JoinArgs(args) ELSE <<>>

\* variant: only the first pattern of the list is tried
ScanRegexes_FirstOnly(regexes, i, detail) ==
  Len(regexes) >= 1 /\ FindallFirstTruthy(regexes[1], detail)

RECURSIVE ScanRegexes(_, _, _)
\* the inner loop: does a pattern from position i on pass the findall test
ScanRegexes(regexes, i, detail) ==
  IF i > Len(regexes) THEN FALSE
  ELSE IF FindallFirstTruthy(regexes[i], detail) THEN TRUE
  ELSE ScanRegexes(regexes, i + 1, detail)

\* variant: the last entry of the dict with a passing pattern
ScanCategories_LastWins(table, c, detail) ==
  LET hits == {k \in c..Len(table) : ScanRegexes(table[k].regexes, 1, detail)}
  IN  IF hits = {} THEN 0 ELSE CHOOSE k \in hits : \A j \in hits : j <= k

RECURSIVE ScanCategories(_, _, _)
\* the outer loop: the first entry of the dict with a passing pattern (0: none)
ScanCategories(table, c, detail) ==
  IF c > Len(table) THEN 0
  ELSE IF ScanRegexes(table[c].regexes, 1, detail) THEN c
  ELSE ScanCategories(table, c + 1, detail)

\* the outcome of the two loops for every dialect and argument tuple tried
MatchTable ==
  [d \in DialectInputs \ {NoDialect} |->
     [a \in OrigArgs |-> ScanCategories(keys_to_regex(d), 1, DriverDetail(a))]]

Handled(o, lookups, calls) == [out |-> o, lookups |-> lookups, calls |-> calls]

\* variant: an exception raised by the callable is caught and translated
RaiseResolved_Guarded(cls, key, messages, e) ==
  LET r == GetErrorMessage(messages, key, e)
  IN  Handled(IF r.raised THEN RaiseFrom("RepositoryError", Text(DefaultText("other"), e.id), e)
              ELSE RaiseFrom(cls, r.value, e),
              <<key>>, r.calls)

\* raise cls(detail=_get_error_message(error_messages, key, exc)) from exc;
\* an exception raised by the callable leaves in its place
RaiseResolved(cls, key, messages, e) ==
  LET r == GetErrorMessage(messages, key, e)
  IN  Handled(IF r.raised THEN RaiseDuring("OverrideError", e)
              ELSE RaiseFrom(cls, r.value, e),
              <<key>>, r.calls)

RaiseFixed(cls, fmt, arg, e) == Handled(RaiseFrom(cls, Text(fmt, arg), e), <<>>, <<>>)

Reraise(e) == Handled(e, <<>>, <<>>)

\* variant: the detail resolved under the key "other"
OnNotFoundError_KeyOther(messages, dialect, wrap, e) ==
  IF ~wrap THEN Reraise(e)
  ELSE IF messages.given THEN RaiseResolved("NotFoundError", "other", messages, e)
  ELSE RaiseFixed("NotFoundError", "No rows matched the specified data", NoRef, e)

OnNotFoundError(messages, dialect, wrap, e) ==
  IF ~wrap THEN Reraise(e)
  ELSE IF messages.given THEN RaiseResolved("NotFoundError", "not_found", messages, e)
  ELSE RaiseFixed("NotFoundError", "No rows matched the specified data", NoRef, e)

OnMultipleResultsFound(messages, dialect, wrap, e) ==
  IF ~wrap THEN Reraise(e)
  ELSE IF messages.given
  THEN RaiseResolved("MultipleResultsFoundError", "multiple_rows", messages, e)
  ELSE RaiseFixed("MultipleResultsFoundError", "Multiple rows matched the specified data",
                  NoRef, e)

OnSQLAlchemyIntegrityError(messages, dialect, wrap, e) ==
  IF ~wrap THEN Reraise(e)
  ELSE IF messages.given /\ dialect # NoDialect
  THEN IF ~e.orig.present
       THEN Handled(RaiseDuring("AttributeError", e), <<>>, <<>>)   \* None.args
       ELSE LET table == keys_to_regex(dialect)
                c == MatchTable[dialect][e.orig.args]
            IN  IF c # 0
                THEN RaiseResolved(table[c].exception, table[c].key, messages, e)
                ELSE RaiseResolved("IntegrityError", "integrity", messages, e)
  ELSE RaiseFixed("IntegrityError", "An integrity error occurred: {exc}", e.id, e)

\* variant: the detail resolved under the key "other" when a table is given
OnSQLAlchemyInvalidRequestError_Resolved(messages, dialect, wrap, e) ==
  IF ~wrap THEN Reraise(e)
  ELSE IF messages.given THEN RaiseResolved("InvalidRequestError", "other", messages, e)
  ELSE RaiseFixed("InvalidRequestError", "An invalid request was made.", NoRef, e)

\* variant: without the wrap_exceptions test
OnSQLAlchemyInvalidRequestError_AlwaysWraps(messages, dialect, wrap, e) ==
  RaiseFixed("InvalidRequestError", "An invalid request was made.", NoRef, e)

OnSQLAlchemyInvalidRequestError(messages, dialect, wrap, e) ==
  IF ~wrap THEN Reraise(e)
  ELSE RaiseFixed("InvalidRequestError", "An invalid request was made.", NoRef, e)

OnStatementError(messages, dialect, wrap, e) ==
  IF ~wrap THEN Reraise(e)
  ELSE IF e.orig.present /\ e.orig.hasDetail
  THEN RaiseFixed("IntegrityError", "{exc.orig.detail}", NoRef, e)
  ELSE RaiseFixed("IntegrityError", "There was an issue processing the statement.",
                  NoRef, e)

\* variant: error_messages=None treated as the empty table
OnSQLAlchemyError_TableOptional(messages, dialect, wrap, e) ==
  IF ~wrap THEN Reraise(e)
  ELSE RaiseResolved("RepositoryError", "other", Table(messages.table), e)

OnSQLAlchemyError(messages, dialect, wrap, e) ==
  IF ~wrap THEN Reraise(e)
  ELSE IF messages.given THEN RaiseResolved("RepositoryError", "other", messages, e)
  ELSE RaiseFixed("RepositoryError", "An exception occurred: {exc}", e.id, e)

OnAttributeError(messages, dialect, wrap, e) ==
  IF ~wrap THEN Reraise(e)
  ELSE IF messages.given THEN RaiseResolved("RepositoryError", "other", messages, e)
  ELSE RaiseFixed("RepositoryError", "An attribute error occurred during processing: {exc}",
                  e.id, e)

\* the except clauses, in source order
Handlers ==
  <<"NotFoundError", "MultipleResultsFound", "SQLAlchemyIntegrityError",
    "SQLAlchemyInvalidRequestError", "StatementError", "SQLAlchemyError",
    "AttributeError">>

\* variant: the last, most general, clause that applies
Clause_MostGeneral(e) ==
  LET hits == {i \in 1..Len(Handlers) : IsInstance(e, Handlers[i])}
  IN  IF hits = {} THEN 0 ELSE CHOOSE i \in hits : \A j \in hits : i >= j

\* the first except clause whose class the exception is an instance of (0: none)
Clause(e) ==
  LET hits == {i \in 1..Len(Handlers) : IsInstance(e, Handlers[i])}
  IN  IF hits = {} THEN 0 ELSE CHOOSE i \in hits : \A j \in hits : i <= j

(***************************************************************************)
(* AdvancedAlchemyError: construction and string rendering                 *)
(***************************************************************************)
\* a positional argument: its truth value and the lexemes of str(arg)
Value(truthy, str) == [truthy |-> truthy, str |-> str]

ArgInputs ==
  {Value(FALSE, <<"None">>),            \* None
   Value(FALSE, <<"0">>),               \* 0
   Value(FALSE, <<>>),                  \* ""
   Value(TRUE, <<"a">>),                \* "a"
   Value(TRUE, <<SP, "b", SP>>),        \* " b "
   Value(TRUE, <<"7">>)}                \* 7

DetailInputs == {<<>>, <<"d">>, <<SP>>, <<"d", SP, "e">>}

IsTruthy(v) == v.truthy

\* [str(arg) for arg in args if arg]
RECURSIVE StrArgs(_)
StrArgs(args) ==
  IF args = <<>> THEN <<>>
  ELSE IF Head(args).truthy THEN <<Head(args).str>> \o StrArgs(Tail(args))
  ELSE StrArgs(Tail(args))

\* AdvancedAlchemyError(*args, detail=detail): self.args and self.detail;
\* neither the class nor a subclass sets a class attribute "detail"
AdvancedAlchemyError_init(args, detail) ==
  LET str_args == StrArgs(args)
  IN  IF detail = <<>> /\ str_args # <<>>
      THEN [args |-> Tail(str_args), detail |-> Head(str_args)]
      ELSE [args |-> str_args, detail |-> detail]

\* " ".join(strs)
RECURSIVE Join(_)
Join(strs) ==
  IF strs = <<>> THEN <<>>
  ELSE IF Len(strs) = 1 THEN Head(strs)
  ELSE Head(strs) \o <<SP>> \o Join(Tail(strs))

Whitespace == {SP, NL}

RECURSIVE LStrip(_)
LStrip(s) == IF s # <<>> /\ Head(s) \in Whitespace THEN LStrip(Tail(s)) ELSE s

RECURSIVE RStrip(_)
RStrip(s) ==
  IF s # <<>> /\ s[Len(s)] \in Whitespace THEN RStrip(SubSeq(s, 1, Len(s) - 1)) ELSE s

\* s.strip()
Strip(s) == RStrip(LStrip(s))

\* variant: the detail rendered before the positional arguments
AdvancedAlchemyError_str_DetailFirst(e) == Strip(Join(<<e.detail>> \o e.args))

\* " ".join((*self.args, self.detail)).strip()
AdvancedAlchemyError_str(e) == Strip(Join(e.args \o <<e.detail>>))

(***************************************************************************)
(* GenericSQLAlchemyConfig.get_engine                                      *)
(***************************************************************************)
NoString == "None"                       \* connection_string=None

\* engines: none, the one given to the constructor, the one a call of
\* create_engine_callable returned (named by the position of that call)
EngineRef(kind, call) == [kind |-> kind, call |-> call]
NoEngine == EngineRef("None", Len(<<>>))
ProvidedEngine == EngineRef("provided", Len(<<>>))
Created(call) == EngineRef("created", call)

\* what a call of create_engine_callable does
CreateOutcomes == {"engine", "TypeError", "OperationalError"}

CreateCall(url, kwargs, outcome) == [url |-> url, kwargs |-> kwargs, outcome |-> outcome]

Returned(engine) == [kind |-> "return", engine |-> engine, error |-> "None"]
Raised(error) == [kind |-> "raise", engine |-> NoEngine, error |-> error]

GetEngineResult(engine, creates, result) ==
  [engine_instance |-> engine, create_calls |-> creates, result |-> result]

\* variant: the engine a call created is returned but not kept
get_engine_NotStored(url, engine, kwargs, creates, first, second) ==
  IF engine # NoEngine THEN GetEngineResult(engine, creates, Returned(engine))
  ELSE IF url = NoString
  THEN GetEngineResult(engine, creates, Raised("ImproperConfigurationError"))
  ELSE LET c1 == Append(creates, CreateCall(url, kwargs, first))
       IN  IF first = "engine"
           THEN GetEngineResult(engine, c1, Returned(Created(Len(c1))))
           ELSE GetEngineResult(engine, c1, Raised(first))

\* variant: without the test of connection_string
get_engine_NoStringTest(url, engine, kwargs, creates, first, second) ==
  IF engine # NoEngine THEN GetEngineResult(engine, creates, Returned(engine))
  ELSE LET c1 == Append(creates, CreateCall(url, kwargs, first))
       IN  IF first = "engine"
           THEN GetEngineResult(Created(Len(c1)), c1, Returned(Created(Len(c1))))
           ELSE GetEngineResult(engine, c1, Raised(first))

\* get_engine() on a config with the given fields, where the first and the
\* second call of create_engine_callable it makes, if any, end as given
get_engine(url, engine, kwargs, creates, first, second) ==
  IF engine # NoEngine THEN GetEngineResult(engine, creates, Returned(engine))
  ELSE IF url = NoString
  THEN GetEngineResult(engine, creates, Raised("ImproperConfigurationError"))
  ELSE LET c1 == Append(creates, CreateCall(url, kwargs, first))
       IN  IF first = "engine"
           THEN GetEngineResult(Created(Len(c1)), c1, Returned(Created(Len(c1))))
           ELSE IF first # "TypeError" THEN GetEngineResult(engine, c1, Raised(first))
           ELSE IF {"json_deserializer", "json_serializer"} \ kwargs # {}
           THEN GetEngineResult(engine, c1, Raised("KeyError"))       \* del of a missing key
           ELSE LET less == kwargs \ {"json_deserializer", "json_serializer"}
                    c2 == Append(c1, CreateCall(url, less, second))
                IN  IF second = "engine"
                    THEN GetEngineResult(Created(Len(c2)), c2, Returned(Created(Len(c2))))
                    ELSE GetEngineResult(engine, c2, Raised(second))

\* __post_init__ refuses a connection_string together with an engine_instance
PostInitAccepts(url, engine) == ~(url # NoString /\ engine # NoEngine)

ConnectionStringInputs == {NoString, "", "sqlite:///:memory:"}
EngineInstanceInputs == {NoEngine, ProvidedEngine}
EngineConfigInputs ==
  {{}, {"json_serializer"}, {"json_deserializer", "json_serializer"},
   {"json_deserializer", "json_serializer", "echo"}}

(***************************************************************************)
(* One use of the context manager                                          *)
(***************************************************************************)
VARIABLES error_messages, dialect_name, wrap_exceptions, pc, exc, out, lookups, calls

\* one GenericSQLAlchemyConfig and the get_engine calls made on it
VARIABLES connection_string, engine_instance, engine_config, create_calls, results

\* one AdvancedAlchemyError: the arguments of its constructor, the object
\* built from them and its str()
VARIABLES ctor_args, ctor_detail, error, rendered

wrapper_vars == <<error_messages, dialect_name, wrap_exceptions, pc, exc, out, lookups, calls>>
config_vars == <<connection_string, engine_instance, engine_config, create_calls, results>>

error_vars == <<ctor_args, ctor_detail, error, rendered>>

vars == <<wrapper_vars, config_vars, error_vars>>

NotBuilt == [built |-> FALSE, args |-> <<>>, detail |-> <<>>]
NotRendered == [done |-> FALSE, text |-> <<>>]

\* no error object is in use
NoError ==
  /\ ctor_args = <<>>
  /\ ctor_detail = <<>>
  /\ error = NotBuilt
  /\ rendered = NotRendered

\* no config is in use
NoConfig ==
  /\ connection_string = NoString
  /\ engine_instance = NoEngine
  /\ engine_config = {}
  /\ create_calls = <<>>
  /\ results = <<>>

BodyExc(cls, orig) == Exc(BodyId, cls, orig, <<>>, NoText, NoRef, NoRef)

\* the exceptions the body of the with-block raises
BodyExceptions ==
  {Exc(BodyId, "NotFoundError", NoOrig, <<>>, Text("No item found", NoRef), NoRef, NoRef)}
    \cup {BodyExc(c, NoOrig) :
            c \in {"MultipleResultsFound", "SQLAlchemyInvalidRequestError",
                   "SQLAlchemyError", "AttributeError", "ValueError",
                   "ImproperConfigurationError"}}
    \cup {BodyExc("StatementError", o) : o \in {NoOrig, Orig(<<>>, FALSE), Orig(<<>>, TRUE)}}
    \cup {BodyExc("SQLAlchemyIntegrityError", o) :
            o \in {NoOrig} \cup {Orig(a, FALSE) : a \in OrigArgs}}

Init ==
  /\ error_messages \in ErrorMessagesInputs
  /\ dialect_name \in DialectInputs
  /\ wrap_exceptions \in BOOLEAN
  /\ pc = "enter"
  /\ exc = NoExc
  /\ out = NoExc
  /\ lookups = <<>>
  /\ calls = <<>>
  /\ NoConfig
  /\ NoError

Inputs == <<error_messages, dialect_name, wrap_exceptions>>

\* the with-block completes: the generator resumes after yield and returns
BodyReturns ==
  /\ pc = "enter"
  /\ pc' = "exited"
  /\ UNCHANGED <<Inputs, exc, out, lookups, calls, config_vars, error_vars>>

\* the with-block raises: the exception is thrown into the generator at yield
BodyRaises ==
  /\ pc = "enter"
  /\ \E e \in BodyExceptions : exc' = e
  /\ pc' = "handling"
  /\ UNCHANGED <<Inputs, out, lookups, calls, config_vars, error_vars>>

Leave(r) ==
  /\ out' = r.out
  /\ lookups' = r.lookups
  /\ calls' = r.calls
  /\ pc' = "exited"
  /\ UNCHANGED <<Inputs, exc, config_vars, error_vars>>

ExceptNotFoundError ==
  /\ pc = "handling" /\ Clause(exc) = 1
  /\ Leave(OnNotFoundError(error_messages, dialect_name, wrap_exceptions, exc))

ExceptMultipleResultsFound ==
  /\ pc = "handling" /\ Clause(exc) = 2
  /\ Leave(OnMultipleResultsFound(error_messages, dialect_name, wrap_exceptions, exc))

ExceptSQLAlchemyIntegrityError ==
  /\ pc = "handling" /\ Clause(exc) = 3
  /\ Leave(OnSQLAlchemyIntegrityError(error_messages, dialect_name, wrap_exceptions, exc))

ExceptSQLAlchemyInvalidRequestError ==
  /\ pc = "handling" /\ Clause(exc) = 4
  /\ Leave(OnSQLAlchemyInvalidRequestError(error_messages, dialect_name, wrap_exceptions, exc))

ExceptStatementError ==
  /\ pc = "handling" /\ Clause(exc) = 5
  /\ Leave(OnStatementError(error_messages, dialect_name, wrap_exceptions, exc))

ExceptSQLAlchemyError ==
  /\ pc = "handling" /\ Clause(exc) = 6
  /\ Leave(OnSQLAlchemyError(error_messages, dialect_name, wrap_exceptions, exc))

ExceptAttributeError ==
  /\ pc = "handling" /\ Clause(exc) = 7
  /\ Leave(OnAttributeError(error_messages, dialect_name, wrap_exceptions, exc))

\* variant: an exception no clause names is wrapped like a database error
Propagate_Wrapped ==
  /\ pc = "handling" /\ Clause(exc) = 0
  /\ Leave(OnSQLAlchemyError(error_messages, dialect_name, wrap_exceptions, exc))

\* no except clause applies: the exception leaves the generator as it is
Propagate ==
  /\ pc = "handling" /\ Clause(exc) = 0
  /\ Leave(Reraise(exc))

Next ==
  \/ BodyReturns
  \/ BodyRaises
  \/ ExceptNotFoundError
  \/ ExceptMultipleResultsFound
  \/ ExceptSQLAlchemyIntegrityError
  \/ ExceptSQLAlchemyInvalidRequestError
  \/ ExceptStatementError
  \/ ExceptSQLAlchemyError
  \/ ExceptAttributeError
  \/ Propagate

Spec == Init /\ [][Next]_vars

(***************************************************************************)
(* A sequence of get_engine calls on one config                            *)
(***************************************************************************)
MaxCalls == 4

\* no scope of wrap_sqlalchemy_exception is in use
NoScope ==
  /\ error_messages = NoMessages
  /\ dialect_name = NoDialect
  /\ wrap_exceptions = TRUE
  /\ pc = "enter"
  /\ exc = NoExc
  /\ out = NoExc
  /\ lookups = <<>>
  /\ calls = <<>>

EngineInit ==
  /\ connection_string \in ConnectionStringInputs
  /\ engine_instance \in EngineInstanceInputs
  /\ PostInitAccepts(connection_string, engine_instance)
  /\ engine_config \in EngineConfigInputs
  /\ create_calls = <<>>
  /\ results = <<>>
  /\ NoScope
  /\ NoError

GetEngine ==
  /\ Len(results) < MaxCalls
  /\ \E first, second \in CreateOutcomes :
       LET r == get_engine(connection_string, engine_instance, engine_config,
                           create_calls, first, second)
       IN  /\ engine_instance' = r.engine_instance
           /\ create_calls' = r.create_calls
           /\ results' = Append(results, r.result)
  /\ UNCHANGED <<connection_string, engine_config, wrapper_vars, error_vars>>

EngineNext == GetEngine

EngineSpec == EngineInit /\ [][EngineNext]_vars

(***************************************************************************)
(* One AdvancedAlchemyError built and rendered                             *)
(***************************************************************************)
MaxCtorArgs == 2

ErrorInit ==
  /\ ctor_args \in SeqsUpTo(ArgInputs, MaxCtorArgs)
  /\ ctor_detail \in DetailInputs
  /\ error = NotBuilt
  /\ rendered = NotRendered
  /\ NoScope
  /\ NoConfig

\* error = AdvancedAlchemyError(*ctor_args, detail=ctor_detail)
Construct ==
  /\ ~error.built
  /\ LET e == AdvancedAlchemyError_init(ctor_args, ctor_detail)
     IN  error' = [built |-> TRUE, args |-> e.args, detail |-> e.detail]
  /\ UNCHANGED <<ctor_args, ctor_detail, rendered, wrapper_vars, config_vars>>

\* rendered = str(error)
Render ==
  /\ error.built /\ ~rendered.done
  /\ rendered' = [done |-> TRUE, text |-> AdvancedAlchemyError_str(error)]
  /\ UNCHANGED <<ctor_args, ctor_detail, error, wrapper_vars, config_vars>>

ErrorNext == Construct \/ Render

ErrorSpec == ErrorInit /\ [][ErrorNext]_vars

(***************************************************************************)
(* Vocabulary of the properties                                            *)
(***************************************************************************)
Categories == <<"duplicate_key", "check_constraint", "foreign_key">>

PatternList(k, d) ==
  CASE k = 1 -> DUPLICATE_KEY_REGEXES[d]
    [] k = 2 -> CHECK_CONSTRAINT_REGEXES[d]
    [] k = 3 -> FOREIGN_KEY_REGEXES[d]

SpecificError(k) ==
  CASE k = 1 -> "DuplicateKeyError"
    [] k = 2 -> "IntegrityError"
    [] k = 3 -> "ForeignKeyError"

\* for a dialect and an argument tuple: per category, the positions of the
\* patterns of its list that match the joined driver message
PatternHits ==
  [d \in Dialects |->
     [a \in OrigArgs |->
        [k \in 1..3 |->
           {i \in 1..Len(PatternList(k, d)) : Search(PatternList(k, d)[i], DriverDetail(a))}]]]

Left == pc = "exited" /\ exc # NoExc
Recognized == Clause(exc) # 0
IntegrityViolation == exc.cls = "SQLAlchemyIntegrityError"
Normalized == out.id = NewId /\ out.cls \in RepositoryFamily

\* the two loops of the integrity handler are reached
Classifying ==
  /\ Left /\ wrap_exceptions /\ IntegrityViolation /\ exc.orig.present
  /\ error_messages.given /\ dialect_name \in Dialects

Hits(k) == PatternHits[dialect_name][exc.orig.args][k]

Entry(key) == error_messages.table[key]
Raises(key) == Entry(key).kind = "fn" /\ Entry(key).ret = "raise"

\* the detail an override table gives for a key
OverrideDetail(key) ==
  CASE Entry(key).kind = "absent" -> Text(DefaultText(key), exc.id)
    [] Entry(key).kind = "str" -> Text(Entry(key).text, NoRef)
    [] Entry(key).kind = "fn" /\ Entry(key).ret = "text" -> Text(FnText(key), exc.id)
    [] OTHER -> NoText

(***************************************************************************)
(* Properties                                                              *)
(***************************************************************************)

\* C1: with wrap_exceptions=False an exception of a recognized category
\* leaves the scope as the very exception raised inside it, whatever the
\* dialect and the override table; no override is looked up or called.
C1_ReraisedUnchanged ==
  (Left /\ Recognized /\ ~wrap_exceptions)
    => (out = exc /\ lookups = <<>> /\ calls = <<>>)

C1_Witness ==
  /\ Left /\ ~wrap_exceptions /\ IntegrityViolation
  /\ error_messages.given /\ dialect_name = "sqlite"
  /\ exc.orig.args = <<"SqliteUniqueMsg">>
  /\ out = exc

\* C2: every normalized error that leaves the scope has the exception caught
\* in the scope as its cause.
C2_CauseIsCaught ==
  (pc = "exited" /\ Normalized) => (exc # NoExc /\ out.cause = exc.id)

C2_Witness ==
  /\ Left /\ Normalized /\ out.cls = "ForeignKeyError" /\ out.cause = exc.id

\* C3: with wrapping enabled, every exception of a recognized category leaves
\* the scope as a normalized error of the RepositoryError family (stated for
\* override tables none of whose callables raises).
C3_OnlyNormalizedLeaves ==
  (Left /\ Recognized /\ wrap_exceptions /\ \A k \in Keys : ~Raises(k))
    => Normalized

\* C4 as claimed: an integrity violation caught with a dialect and wrapping
\* enabled whose driver message matches the first pattern of a category's
\* list for that dialect is raised as that category's error type.
C4_FirstPatternAsClaimed ==
  \A k \in 1..3 :
    (/\ Left /\ wrap_exceptions /\ IntegrityViolation /\ exc.orig.present
     /\ dialect_name \in Dialects
     /\ 1 \in Hits(k))
      => out.cls = SpecificError(k)

\* C4 amended: when moreover an override table is supplied and no pattern of
\* an earlier category matches, the violation is resolved under that
\* category's key and, unless the callable for that key raises, raised as
\* that category's error type.
C4_FirstPattern ==
  \A k \in 1..3 :
    (/\ Classifying
     /\ 1 \in Hits(k)
     /\ \A j \in 1..(k - 1) : Hits(j) = {})
      => /\ lookups = <<Categories[k]>>
         /\ IF Raises(Categories[k]) THEN ~Normalized
            ELSE Normalized /\ out.cls = SpecificError(k)

C4_Witness ==
  /\ Classifying /\ dialect_name = "postgresql"
  /\ exc.orig.args = <<"PgForeignKeyMsg">>
  /\ 1 \in Hits(3)
  /\ out.cls = "ForeignKeyError"

\* C5 as claimed: with dialect_name="sqlite" an integrity violation whose
\* driver message is "UNIQUE constraint failed: <table>.<column>" is raised
\* as DuplicateKeyError.
C5_LaterPatternAsClaimed ==
  (/\ Left /\ wrap_exceptions /\ IntegrityViolation /\ exc.orig.present
   /\ dialect_name = "sqlite"
   /\ exc.orig.args = <<"SqliteUniqueMsg">>)
    => out.cls = "DuplicateKeyError"

\* C5 amended: with an override table supplied, a message matched by a
\* pattern of a category's list other than the first (and by no pattern of
\* an earlier category) is resolved under that category's key and, unless
\* the callable for that key raises, raised as that category's error type.
C5_LaterPattern ==
  \A k \in 1..3 :
    (/\ Classifying
     /\ Hits(k) # {} /\ 1 \notin Hits(k)
     /\ \A j \in 1..(k - 1) : Hits(j) = {})
      => /\ lookups = <<Categories[k]>>
         /\ IF Raises(Categories[k]) THEN ~Normalized
            ELSE Normalized /\ out.cls = SpecificError(k)

C5_Witness ==
  /\ Classifying /\ dialect_name = "sqlite"
  /\ exc.orig.args = <<"SqliteUniqueMsg">>
  /\ Hits(1) = {2}
  /\ out.cls = "DuplicateKeyError"

\* C6: when the driver message matches patterns of two categories of the
\* dialect, the key resolved and the type raised are those of the category
\* that comes first in duplicate_key, check_constraint, foreign_key; one
\* exception leaves the scope.
C6_EarlierCategoryWins ==
  LET hit == {k \in 1..3 : Hits(k) # {}}
  IN  (Classifying /\ Cardinality(hit) >= 2)
        => LET first == CHOOSE k \in hit : \A j \in hit : k <= j
           IN  /\ lookups = <<Categories[first]>>
               /\ out.id = NewId
               /\ Normalized => out.cls = SpecificError(first)
               /\ ~Raises(Categories[first]) => Normalized

C6_Witness ==
  /\ Classifying /\ dialect_name = "postgresql"
  /\ exc.orig.args = <<"PgForeignKeyDupTableMsg">>
  /\ Hits(1) # {} /\ Hits(3) # {}
  /\ out.cls = "DuplicateKeyError"
  /\ lookups = <<"duplicate_key">>

\* the dialects every pattern list of which is empty, and those whose
\* check_constraint list alone is empty
NoPatternDialects ==
  {"oracle", "spanner+spanner", "duckdb", "mssql", "bigquery", "cockroach"}
NoCheckPatternDialects == {"sqlite", "mysql"}

\* C7 as claimed: for a dialect/category pair whose pattern list is empty, an
\* integrity violation caught with that dialect is raised as the generic
\* IntegrityError (stated for a driver error that is present and override
\* tables none of whose callables raises).
C7_EmptyListAsClaimed ==
  \A k \in 1..3 :
    (/\ Left /\ wrap_exceptions /\ IntegrityViolation /\ exc.orig.present
     /\ \A key \in Keys : ~Raises(key)
     /\ dialect_name \in Dialects
     /\ PatternList(k, dialect_name) = <<>>)
      => Normalized /\ out.cls = "IntegrityError"

\* C7 amended: for oracle, spanner+spanner, duckdb, mssql, bigquery and
\* cockroach an integrity violation is never raised as DuplicateKeyError or
\* ForeignKeyError, resolves no key but "integrity", and any normalized error
\* raised for it is the generic IntegrityError; for sqlite and mysql, where
\* only the check_constraint list is empty, it is never resolved under
\* check_constraint.
C7_EmptyList ==
  (Left /\ wrap_exceptions /\ IntegrityViolation)
    => /\ dialect_name \in NoPatternDialects
            => /\ out.cls \notin {"DuplicateKeyError", "ForeignKeyError"}
               /\ lookups \in {<<>>, <<"integrity">>}
               /\ Normalized => out.cls = "IntegrityError"
       /\ dialect_name \in NoCheckPatternDialects => lookups # <<"check_constraint">>

C7_Witness ==
  /\ Left /\ wrap_exceptions /\ IntegrityViolation /\ error_messages.given
  /\ dialect_name = "oracle"
  /\ exc.orig.args = <<"PgDuplicateMsg">>
  /\ out.cls = "IntegrityError" /\ lookups = <<"integrity">>

\* the violation ends as the generic IntegrityError because no pattern
\* matched, no dialect name was supplied or no override table was supplied
GenericIntegrity ==
  /\ Left /\ wrap_exceptions /\ IntegrityViolation
  /\ Normalized /\ out.cls = "IntegrityError"
  /\ \/ ~error_messages.given
     \/ dialect_name \notin Dialects
     \/ \A k \in 1..3 : Hits(k) = {}

\* C8: the detail of a generic IntegrityError is the resolved "integrity"
\* override when the supplied table has an "integrity" entry, and otherwise
\* a default message embedding the text of the caught exception.
C8_GenericIntegrityDetail ==
  GenericIntegrity
    => IF error_messages.given /\ Entry("integrity").kind # "absent"
       THEN out.detail = OverrideDetail("integrity")
       ELSE out.detail.arg = exc.id
              /\ out.detail.fmt \in {"An integrity error occurred: {exc}",
                                     DefaultText("integrity")}

\* the category a raised normalized error stands for ("none": the wrapper
\* defines no override key for it)
CategoryOfRaised ==
  CASE out.cls = "NotFoundError" -> "not_found"
    [] out.cls = "MultipleResultsFoundError" -> "multiple_rows"
    [] out.cls = "DuplicateKeyError" -> "duplicate_key"
    [] out.cls = "ForeignKeyError" -> "foreign_key"
    [] out.cls = "RepositoryError" -> "other"
    [] out.cls = "IntegrityError" /\ IntegrityViolation ->
         IF Classifying /\ Hits(2) # {} THEN "check_constraint" ELSE "integrity"
    [] OTHER -> "none"

\* C9: when the override entry for the category of the raised normalized
\* error is a callable, it is called once with the caught exception and what
\* it returns is the detail, also when that is the empty string; when the
\* entry is a string, that string is the detail.
C9_OverrideIsDetail ==
  (Left /\ Normalized /\ error_messages.given /\ CategoryOfRaised # "none")
    => LET key == CategoryOfRaised
       IN  /\ Entry(key).kind = "fn"
                => /\ calls = <<[key |-> key, arg |-> exc.id]>>
                   /\ out.detail = OverrideDetail(key)
           /\ Entry(key).kind = "str" => out.detail = Text(Entry(key).text, NoRef)

\* C10: a NotFoundError caught in the scope is raised as NotFoundError with
\* the "not_found" override or the default detail, a MultipleResultsFound as
\* MultipleResultsFoundError with the "multiple_rows" override or the default
\* detail (unless the callable for the key raises); neither the dialect nor a
\* pattern table has a part in it.
C10_StructuralConditions ==
  /\ (Left /\ wrap_exceptions /\ exc.cls = "NotFoundError")
       => /\ lookups = IF error_messages.given THEN <<"not_found">> ELSE <<>>
          /\ ~Raises("not_found")
               => /\ Normalized /\ out.cls = "NotFoundError"
                  /\ out.detail = IF error_messages.given THEN OverrideDetail("not_found")
                                  ELSE Text("No rows matched the specified data", NoRef)
  /\ (Left /\ wrap_exceptions /\ exc.cls = "MultipleResultsFound")
       => /\ lookups = IF error_messages.given THEN <<"multiple_rows">> ELSE <<>>
          /\ ~Raises("multiple_rows")
               => /\ Normalized /\ out.cls = "MultipleResultsFoundError"
                  /\ out.detail = IF error_messages.given THEN OverrideDetail("multiple_rows")
                                  ELSE Text("Multiple rows matched the specified data", NoRef)

C10_Witness ==
  /\ Left /\ wrap_exceptions /\ exc.cls = "NotFoundError"
  /\ dialect_name = "postgresql"
  /\ Entry("not_found") = Str("custom not_found")
  /\ out.cls = "NotFoundError"
  /\ out.detail = Text("custom not_found", NoRef)

\* an AttributeError arises while the integrity handler reads exc.orig.args
AttributeErrorInHandler ==
  /\ IntegrityViolation /\ ~exc.orig.present
  /\ error_messages.given /\ dialect_name # NoDialect

\* C11: with wrapping enabled an AttributeError that occurs during
\* processing, in the body of the scope or while a caught exception is being
\* handled, leaves the scope as RepositoryError whose detail is resolved
\* under the key "other" when a table is supplied and is otherwise the
\* default embedding the error (stated for tables whose callables do not raise).
C11_AttributeErrorIsOther ==
  (/\ Left /\ wrap_exceptions
   /\ exc.cls = "AttributeError" \/ AttributeErrorInHandler
   /\ ~Raises("other"))
    => /\ Normalized /\ out.cls = "RepositoryError"
       /\ error_messages.given => lookups = <<"other">>
       /\ ~error_messages.given => out.detail.arg # NoRef

\* C12: an exception that is an instance of none of the classes named by the
\* except clauses leaves the scope as the same exception, for every value of
\* wrap_exceptions, dialect_name and error_messages; nothing is looked up.
C12_UnrecognizedPropagates ==
  (Left /\ ~Recognized) => (out = exc /\ lookups = <<>> /\ calls = <<>>)

C12_Witness ==
  /\ Left /\ wrap_exceptions /\ exc.cls = "ImproperConfigurationError"
  /\ error_messages.given /\ Entry("other").kind = "fn"
  /\ dialect_name = "mysql"
  /\ out.id = BodyId /\ out.cls = "ImproperConfigurationError"

\* C13: with wrapping enabled an exception caught by the invalid-request
\* clause is raised as InvalidRequestError with the fixed detail
\* "An invalid request was made.", for every override table and dialect;
\* no override entry is looked up or called.
C13_FixedInvalidRequest ==
  (Left /\ wrap_exceptions /\ exc.cls = "SQLAlchemyInvalidRequestError")
    => /\ Normalized /\ out.cls = "InvalidRequestError"
       /\ out.detail = Text("An invalid request was made.", NoRef)
       /\ out.args = <<>>
       /\ lookups = <<>> /\ calls = <<>>

C13_Witness ==
  /\ Left /\ wrap_exceptions /\ exc.cls = "SQLAlchemyInvalidRequestError"
  /\ \A k \in Keys : Entry(k).kind = "fn" /\ Entry(k).ret = "text"
  /\ dialect_name = "postgresql"
  /\ out.cls = "InvalidRequestError"
  /\ out.detail = Text("An invalid request was made.", NoRef)

\* C16: when the override callable consulted for a caught exception raises,
\* the exception it raised is what leaves the scope: it is new, has no cause,
\* and no normalized error is raised for the caught exception.
C16_OverrideExceptionLeaves ==
  (Left /\ wrap_exceptions /\ lookups # <<>> /\ Raises(lookups[1]))
    => /\ out.id = NewId /\ out.cls = "OverrideError"
       /\ out.cause = NoRef /\ out.context = exc.id
       /\ ~Normalized
       /\ calls = <<[key |-> lookups[1], arg |-> exc.id]>>

C16_Witness ==
  /\ Left /\ wrap_exceptions /\ exc.cls = "SQLAlchemyError"
  /\ Raises("other") /\ lookups = <<"other">>
  /\ out.cls = "OverrideError"

\* error_messages={}
EmptyTable == Table([k \in Keys |-> Absent])

\* what the wrapper does with exception e under other inputs
Outcome(messages, dialect, wrap, e) ==
  CASE Clause(e) = 1 -> OnNotFoundError(messages, dialect, wrap, e)
    [] Clause(e) = 2 -> OnMultipleResultsFound(messages, dialect, wrap, e)
    [] Clause(e) = 3 -> OnSQLAlchemyIntegrityError(messages, dialect, wrap, e)
    [] Clause(e) = 4 -> OnSQLAlchemyInvalidRequestError(messages, dialect, wrap, e)
    [] Clause(e) = 5 -> OnStatementError(messages, dialect, wrap, e)
    [] Clause(e) = 6 -> OnSQLAlchemyError(messages, dialect, wrap, e)
    [] Clause(e) = 7 -> OnAttributeError(messages, dialect, wrap, e)
    [] OTHER -> Reraise(e)

WithEmptyTable == Outcome(EmptyTable, dialect_name, wrap_exceptions, exc).out

\* the detail built into the clauses for error_messages=None
BuiltinDetail ==
  CASE Clause(exc) = 1 -> Text("No rows matched the specified data", NoRef)
    [] Clause(exc) = 2 -> Text("Multiple rows matched the specified data", NoRef)
    [] Clause(exc) = 3 -> Text("An integrity error occurred: {exc}", exc.id)
    [] Clause(exc) = 6 -> Text("An exception occurred: {exc}", exc.id)
    [] Clause(exc) = 7 -> Text("An attribute error occurred during processing: {exc}", exc.id)
    [] OTHER -> NoText

\* C17 as claimed: without error_messages the wrapper raises an error of the
\* same type and detail as with the empty override table.
C17_NoneAsEmptyAsClaimed ==
  (Left /\ ~error_messages.given)
    => (out.cls = WithEmptyTable.cls /\ out.detail = WithEmptyTable.detail)

\* C17 amended: error_messages=None is not the empty table.  Without a table
\* the error raised for an invalid-request or statement error is the one the
\* empty table gives; for a not-found, multiple-results, other database or
\* attribute error the type is the same but the detail is the clause's
\* built-in text, not "<key> error: <exc>"; an integrity violation is raised
\* as IntegrityError with the built-in detail, which the empty table gives
\* only when no dialect name is supplied.
C17_NoneVersusEmpty ==
  (Left /\ Recognized /\ wrap_exceptions /\ ~error_messages.given)
    => /\ Normalized /\ lookups = <<>>
       /\ Clause(exc) \in {4, 5} => out = WithEmptyTable
       /\ Clause(exc) \in {1, 2, 6, 7}
            => /\ out.cls = WithEmptyTable.cls
               /\ out.detail = BuiltinDetail
               /\ WithEmptyTable.detail.fmt \in {DefaultText(k) : k \in Keys}
               /\ out.detail # WithEmptyTable.detail
       /\ Clause(exc) = 3
            => /\ out.cls = "IntegrityError" /\ out.detail = BuiltinDetail
               /\ (out = WithEmptyTable) <=> (dialect_name = NoDialect)

C17_Witness ==
  /\ Left /\ wrap_exceptions /\ ~error_messages.given
  /\ exc.cls = "SQLAlchemyError"
  /\ out.cls = "RepositoryError"
  /\ out.detail = Text("An exception occurred: {exc}", exc.id)
  /\ WithEmptyTable.detail = Text("other error: {exc}", exc.id)

\* C18: an exception that several except clauses name by subtyping is handled
\* by the first, most specific one: a MultipleResultsFound is raised as
\* MultipleResultsFoundError and never as InvalidRequestError, an integrity
\* violation never gets the statement clause's error, and a statement error
\* is raised as the statement clause's IntegrityError, never resolved under
\* "other" as RepositoryError.
C18_MostSpecificBranch ==
  (Left /\ wrap_exceptions)
    => /\ exc.cls = "MultipleResultsFound"
            => /\ out.cls # "InvalidRequestError"
               /\ lookups = IF error_messages.given THEN <<"multiple_rows">> ELSE <<>>
               /\ ~Raises("multiple_rows") => out.cls = "MultipleResultsFoundError"
       /\ IntegrityViolation
            => /\ out # OnStatementError(error_messages, dialect_name, wrap_exceptions, exc).out
               /\ out.detail.fmt # "There was an issue processing the statement."
               /\ \/ lookups # <<>>
                  \/ out.cls = "AttributeError"
                  \/ out.detail = Text("An integrity error occurred: {exc}", exc.id)
       /\ exc.cls = "StatementError"
            => /\ out = OnStatementError(error_messages, dialect_name, wrap_exceptions, exc).out
               /\ out.cls = "IntegrityError"
               /\ lookups = <<>>

C18_Witness ==
  /\ Left /\ wrap_exceptions /\ exc.cls = "StatementError"
  /\ exc.orig.present /\ exc.orig.hasDetail
  /\ Entry("other") = Str("custom other")
  /\ out.cls = "IntegrityError" /\ out.detail = Text("{exc.orig.detail}", NoRef)

\* the calls of create_engine_callable that returned an engine
EnginesCreated == {i \in 1..Len(create_calls) : create_calls[i].outcome = "engine"}

\* the get_engine calls that returned
Successful == {i \in 1..Len(results) : results[i].kind = "return"}

\* C14: over a sequence of get_engine calls on one config, an engine given to
\* the constructor is returned by every call and create_engine_callable is
\* never called; otherwise the first call that succeeds returns an engine
\* created from connection_string, which is kept as engine_instance and
\* returned by every later call, so that at most one engine is created.
C14_OneEngine ==
  /\ Cardinality(EnginesCreated) <= 1
  /\ \A i \in 1..Len(create_calls) : create_calls[i].url = connection_string
  /\ engine_instance = ProvidedEngine
       => /\ create_calls = <<>>
          /\ \A i \in 1..Len(results) : results[i] = Returned(ProvidedEngine)
  /\ engine_instance.kind = "created"
       => /\ EnginesCreated = {engine_instance.call}
          /\ engine_instance.call = Len(create_calls)
          /\ Successful # {}
  /\ \A i \in Successful :
       /\ results[i] = Returned(engine_instance)
       /\ \A j \in i..Len(results) : results[j] = results[i]

C14_Witness ==
  /\ connection_string = "sqlite:///:memory:"
  /\ Len(results) >= 3
  /\ results[1] = Raised("OperationalError")
  /\ results[2] = Returned(Created(3))
  /\ results[3] = results[2]
  /\ Len(create_calls) = 3 /\ create_calls[2].outcome = "TypeError"

\* C15: get_engine on a config with neither a connection_string nor an
\* engine_instance raises ImproperConfigurationError without calling
\* create_engine_callable and leaves engine_instance unset: every call of a
\* sequence fails the same way.
C15_Unconfigured ==
  (connection_string = NoString /\ engine_instance = NoEngine)
    => /\ create_calls = <<>>
       /\ \A i \in 1..Len(results) : results[i] = Raised("ImproperConfigurationError")

C15_Witness ==
  /\ connection_string = NoString /\ engine_instance = NoEngine
  /\ Len(results) >= 2
  /\ results[1] = Raised("ImproperConfigurationError")
  /\ results[2] = results[1]

\* the positions of the truthy constructor arguments
TruthyAt == {i \in 1..Len(ctor_args) : ctor_args[i].truthy}

\* the i-th smallest element of a finite set of numbers
Nth(S, i) == CHOOSE x \in S : Cardinality({y \in S : y <= x}) = i

\* the str() of the truthy constructor arguments, in order
Remaining == [i \in 1..Cardinality(TruthyAt) |-> ctor_args[Nth(TruthyAt, i)].str]

PromotesFirst == ctor_detail = <<>> /\ Remaining # <<>>

RetainedArgs == IF PromotesFirst THEN SubSeq(Remaining, 2, Len(Remaining)) ELSE Remaining
FinalDetail == IF PromotesFirst THEN Remaining[1] ELSE ctor_detail

\* s without its leading and trailing whitespace
Trimmed(s) ==
  LET inked == {i \in 1..Len(s) : s[i] \notin Whitespace}
  IN  IF inked = {} THEN <<>>
      ELSE SubSeq(s, Nth(inked, 1), Nth(inked, Cardinality(inked)))

\* the parts laid out with one space between consecutive parts
RECURSIVE SpaceSeparated(_)
SpaceSeparated(parts) ==
  IF Len(parts) <= 1 THEN (IF parts = <<>> THEN <<>> ELSE parts[1])
  ELSE SpaceSeparated(SubSeq(parts, 1, Len(parts) - 1)) \o <<SP>> \o parts[Len(parts)]

\* C19: the string rendering of an AdvancedAlchemyError built from positional
\* arguments and a detail keyword is the retained arguments followed by the
\* detail, separated by single spaces and trimmed; falsy arguments are
\* dropped, and without a non-empty detail keyword the first remaining
\* argument becomes the detail and leaves the positional arguments.
C19_Rendering ==
  /\ error.built => (error.args = RetainedArgs /\ error.detail = FinalDetail)
  /\ rendered.done
       => rendered.text = Trimmed(SpaceSeparated(RetainedArgs \o <<FinalDetail>>))

C19_Witness ==
  /\ rendered.done
  /\ Len(ctor_args) = 2
  /\ ctor_args[1] = Value(TRUE, <<"7">>) /\ ctor_args[2] = Value(TRUE, <<SP, "b", SP>>)
  /\ ctor_detail = <<>>
  /\ error.args = << <<SP, "b", SP>> >> /\ error.detail = <<"7">>
  /\ rendered.text = <<"b", SP, SP, "7">>

====
